---- MODULE Spec2Model ----
(***************************************************************************)
(* The chat hooks of the compliance-rag frontend                            *)
(* (src/frontend/src/hooks/use-chat.ts) as a state machine:                 *)
(*   - useStreamingChat: the React state of the hook, the closure the       *)
(*     last render handed to the UI, every invocation of                    *)
(*     sendStreamingMessage with its local variables, cancelStreaming;      *)
(*   - useSendMessage: the non-streaming mutation and its onSuccess;        *)
(*   - the react-query cache entry of the chat session both write to.       *)
(* Text is a sequence of one-character strings, so that concatenation and   *)
(* order are visible.  An async function is one action per segment between  *)
(* two awaits.                                                              *)
(***************************************************************************)
EXTENDS Integers, Sequences, FiniteSets, TLC

\* ---------------------------------------------------------------- bounds
MaxCalls == 3       \* invocations of sendStreamingMessage that pass the guard
MaxLines == 3       \* lines the server sends, over all streams
MaxChunk == 2       \* lines one reader.read() delivers
MaxInFlight == 2    \* invocations in flight at once
MaxRequests == 3    \* non-streaming send-message mutations
MaxBytes == 5       \* characters of a response body read character by character
MaxPolls == 3       \* times the status query's refetch interval fires
MaxAuthOps == 3     \* logins, registrations, logouts and start-up refreshes
MaxTextLen == 8     \* characters of a document the chunker splits
MaxChunkSize == 4   \* the chunk_size the chunker is configured with
MaxSearches == 2    \* searches of the vector index
MaxChunkIndex == 2  \* the highest chunk sequence index of an indexed document
MaxK == 3           \* the k a retrieval asks for
MaxPageSends == 3   \* questions asked in the document chat page
MaxSessions == 4    \* chat sessions the server ever holds

Calls == 1..MaxCalls
Requests == 1..MaxRequests

\* ------------------------------------------------------------ the values
NoController == 0                       \* abortControllerRef.current = null
EmptyText == << >>                      \* ''
NoSources == << >>                      \* []

TokenContents == {<<"a">>, <<"b">>}
SourceLists == {<<"docA">>, <<"docB">>}
MessageIds == {"m1", "m2"}
SessionIds == {"s1"}
NoSessionId == ""                       \* sessionId undefined
ErrorReasons == {"boom"}
DefaultError == "Streaming error"       \* data.error || 'Streaming error'

\* The text of the i-th question the user sends.
QuestionText(i) == <<"q", ToString(i)>>

\* StreamingChatResponse: the optional fields are present or not.
TokenEvents == {[type |-> "token", content |-> c] : c \in TokenContents}
                 \cup {[type |-> "token"]}
SourcesEvents == {[type |-> "sources", sources |-> s] : s \in SourceLists}
                   \cup {[type |-> "sources"]}
DoneEvents == {[type |-> "done", message_id |-> m] : m \in MessageIds}
                \cup {[type |-> "done"]}
ErrorEvents == {[type |-> "error", error |-> e] : e \in ErrorReasons}
                 \cup {[type |-> "error"]}
StreamingChatResponse == TokenEvents \cup SourcesEvents \cup DoneEvents \cup ErrorEvents

\* A line of the response body: a 'data: <json>' line, a 'data: ' line whose
\* payload JSON.parse rejects, or any other line (the blank line between events).
DataLine(ev) == [startsWithData |-> TRUE, parses |-> TRUE, data |-> ev]
BadJsonLine == [startsWithData |-> TRUE, parses |-> FALSE]
OtherLine == [startsWithData |-> FALSE]
Lines == {DataLine(ev) : ev \in StreamingChatResponse} \cup {BadJsonLine, OtherLine}

\* What one reader.read() can deliver when at most n more lines are sent.
ChunksUpTo(n) == UNION {[1..k -> Lines] : k \in 1..(IF n < MaxChunk THEN n ELSE MaxChunk)}

VARIABLES
    isStreaming,          \* useState(false)
    streamingMessage,     \* useState('')
    streamingSources,     \* useState([])
    abortControllerRef,   \* useRef(null): the call whose controller it holds
    rendered,             \* the state the last render closed the callbacks over
    calls,                \* the invocations of sendStreamingMessage
    nCalls,               \* invocations that passed the guard
    nLines,               \* lines read so far, over all streams
    session,              \* query cache entry QueryKeys.CHAT_SESSION(s1)
    toast,                \* description of the toast the last step raised, '' if none
    requests,             \* the useSendMessage mutations
    nRequests


hookVars == <<isStreaming, streamingMessage, streamingSources, abortControllerRef,
              rendered, calls, nCalls, nLines>>
sendVars == <<requests, nRequests>>
chatVars == <<hookVars, session, toast, sendVars>>

\* The read loop of sendStreamingMessage, character by character.
VARIABLES
    response,             \* the characters of the response body
    delivered,            \* how many of them reader.read() has delivered
    buffer,               \* let buffer = ''
    handled,              \* the payloads of the lines the loop body has handled
    reading,              \* whether the while (true) loop is still running
    cuts                  \* where the chunks delivered so far ended (not program state)

parseVars == <<response, delivered, buffer, handled, reading, cuts>>

\* useDocumentProcessingStatus and the document it asks about.
VARIABLES
    documentId,           \* the hook's argument, '' when no document is shown
    statusData,           \* the query's data: the status last fetched, or none
    statusFetch,          \* the GET .../status in flight: none, sent, or its answer
    refetchTimer,         \* the delay of the query's refetch interval, NoTimer if none
    processing,           \* the document's processing status at the server
    nPolls                \* times the refetch interval has fired

pollVars == <<documentId, statusData, statusFetch, refetchTimer, processing, nPolls>>

\* useAuthStore and the auth-check query of useAuthChecker.
VARIABLES
    store,                \* user, tokens, isAuthenticated, isLoading
    stored,               \* what AuthService finds in local storage at start-up
    initialized,          \* whether initializeAuth has run
    ops,                  \* the calls of login, register, logout and refreshToken
    nOps,                 \* how many of them have started
    checker,              \* the auth-check query: its data and checkAuth's position
    writer,               \* the call whose result the store holds (not program state)
    lastLogout            \* nOps when the last logout completed (not program state)

authVars == <<store, stored, initialized, ops, nOps, checker, writer, lastLogout>>

\* The Chunker: chunk(text, chunk_size, overlap).
VARIABLES
    textLen,              \* the length of the normalized document text
    chunkSize,            \* chunk_size
    chunkOverlap,         \* overlap
    chunks,               \* the chunks produced so far: their offsets [start, end)
    chunkStart,           \* where the next chunk starts
    chunked               \* whether the last chunk has been produced

chunkVars == <<textLen, chunkSize, chunkOverlap, chunks, chunkStart, chunked>>

\* The VectorIndex: delete(document_id) and search(query_vector, k).
VARIABLES
    index,                \* the entries searches starting now read
    deleting,             \* the documents whose delete is in progress
    deleted,              \* the documents whose delete has completed
    searches              \* the searches: position, snapshot, what they found

indexVars == <<index, deleting, deleted, searches>>

\* The Retriever: retrieve(query_text, k).
VARIABLES
    scores,               \* the similarity of each indexed chunk to the query
    topK,                 \* k
    candidates,           \* the ranked candidates, as the steps leave them
    retrievePc            \* the step retrieve is at

retrieveVars == <<scores, topK, candidates, retrievePc>>

\* The document chat page (ChatPage).
VARIABLES
    selectedDocument,     \* useState(null)
    messages,             \* useState([])
    isLoading,            \* useState(false)
    timeouts,             \* the setTimeout callbacks not yet run
    nPageSends            \* questions asked so far

pageVars == <<selectedDocument, messages, isLoading, timeouts, nPageSends>>

\* AuthGuard.
VARIABLES
    guard                 \* its props, useState(false) of mounted, and what it rendered

guardVars == <<guard>>

\* The chat sessions: the server's, and the cached list of useChatSessions.
VARIABLES
    serverSessions,       \* the ids of the sessions the server holds
    sessionsCache,        \* the query data under QueryKeys.CHAT_SESSIONS
    nSessions             \* how many sessions the server has created

listVars == <<serverSessions, sessionsCache, nSessions>>

restVars ==
    <<parseVars, pollVars, authVars, chunkVars, indexVars, retrieveVars, pageVars,
      guardVars, listVars>>

\* What the actions of one part leave alone.
parseOthers ==
    <<chatVars, pollVars, authVars, chunkVars, indexVars, retrieveVars, pageVars, guardVars,
      listVars>>
pollOthers ==
    <<chatVars, parseVars, authVars, chunkVars, indexVars, retrieveVars, pageVars, guardVars,
      listVars>>
authOthers ==
    <<chatVars, parseVars, pollVars, chunkVars, indexVars, retrieveVars, pageVars, guardVars,
      listVars>>
chunkOthers ==
    <<chatVars, parseVars, pollVars, authVars, indexVars, retrieveVars, pageVars, guardVars,
      listVars>>
indexOthers ==
    <<chatVars, parseVars, pollVars, authVars, chunkVars, retrieveVars, pageVars, guardVars,
      listVars>>
retrieveOthers ==
    <<chatVars, parseVars, pollVars, authVars, chunkVars, indexVars, pageVars, guardVars,
      listVars>>
pageOthers ==
    <<chatVars, parseVars, pollVars, authVars, chunkVars, indexVars, retrieveVars,
      guardVars, listVars>>
guardOthers ==
    <<chatVars, parseVars, pollVars, chunkVars, indexVars, retrieveVars, pageVars,
      listVars>>
listOthers ==
    <<chatVars, parseVars, pollVars, authVars, chunkVars, indexVars, retrieveVars,
      pageVars, guardVars>>

NoTimer == 0                            \* refetchInterval returned false
NoStatus == "none"                      \* data is undefined

\* No status query is mounted.
PollIdle ==
    /\ documentId = ""
    /\ statusData = NoStatus
    /\ statusFetch = "none"
    /\ refetchTimer = NoTimer
    /\ processing = "pending"
    /\ nPolls = 0

AuthOps == 1..MaxAuthOps
NoTokens == 0                           \* access_token, refresh_token, expires_at: null
StoredTokens == MaxAuthOps + 1          \* the tokens local storage held at start-up
NoUser == 0                             \* user: null
UpdatedUser == MaxAuthOps + 2           \* the user an updated profile returned
NoWriter == 0
NoLogout == MaxAuthOps + 1              \* no logout has completed since the last sign-in

\* tokens and user name the call whose response carried them; expired is
\* Date.now() >= tokens.expires_at.
InitialStore ==
    [user |-> NoUser, isAuthenticated |-> FALSE, isLoading |-> FALSE,
     tokens |-> NoTokens, expired |-> FALSE]

\* response is what the AuthService request of the call did ("ok", "null",
\* "error"); promise is how the call's own promise settled.
IdleOp == [kind |-> "none", pc |-> "idle", response |-> "none", promise |-> "none"]
IdleChecker == [data |-> "none", pc |-> "idle", awaits |-> 0]

\* The store as created, before initializeAuth.
AuthIdle ==
    /\ store = InitialStore
    /\ stored = "none"
    /\ initialized = FALSE
    /\ ops = [o \in AuthOps |-> IdleOp]
    /\ nOps = 0
    /\ checker = IdleChecker
    /\ writer = NoWriter
    /\ lastLogout = NoLogout

\* No document is being chunked.
ChunkIdle ==
    /\ textLen = 0
    /\ chunkSize = 1
    /\ chunkOverlap = 0
    /\ chunks = << >>
    /\ chunkStart = 0
    /\ chunked = TRUE

Searches == 1..MaxSearches
Documents == {"d1", "d2"}
ChunkIndices == 1..MaxChunkIndex

\* A VectorIndex entry, without its vector: the document and the chunk's
\* sequence index.
Entries == [document : Documents, chunk : ChunkIndices]
EntriesOf(d) == {e \in Entries : e.document = d}

IdleSearch ==
    [pc |-> "idle", snapshot |-> {}, matching |-> {}, scanned |-> {}, results |-> {},
     deletedBefore |-> {}]

\* An empty index that nothing searches.
IndexIdle ==
    /\ index = {}
    /\ deleting = {}
    /\ deleted = {}
    /\ searches = [s \in Searches |-> IdleSearch]

NotIndexed == 0                         \* the chunk is not in the index

\* No retrieval is running.
RetrieveIdle ==
    /\ scores = [e \in Entries |-> NotIndexed]
    /\ topK = 1
    /\ candidates = << >>
    /\ retrievePc = "done"

NoDocument == ""                        \* selectedDocument = null
PageSends == 1..MaxPageSends
NoTimeout == [pending |-> FALSE, messageText |-> 0, selectedDocument |-> NoDocument]

\* The document chat page as constructed.
PageInit ==
    /\ selectedDocument = NoDocument
    /\ messages = << >>
    /\ isLoading = FALSE
    /\ timeouts = [t \in PageSends |-> NoTimeout]
    /\ nPageSends = 0

\* No AuthGuard is in the tree.
GuardIdle ==
    guard = [requireAuth |-> TRUE, fallback |-> FALSE, mounted |-> FALSE,
             view |-> "none"]

NoList == [sessions |-> << >>, total |-> 0, cached |-> FALSE]   \* undefined

\* No session exists and no list is cached.
ListIdle ==
    /\ serverSessions = {}
    /\ sessionsCache = NoList
    /\ nSessions = 0

\* The parts other than the chat hooks as constructed, nothing running.
RestIdle ==
    /\ PollIdle /\ AuthIdle /\ ChunkIdle /\ IndexIdle /\ RetrieveIdle /\ PageInit
    /\ GuardIdle /\ ListIdle

\* No response is being read.
ParseIdle ==
    /\ response = << >>
    /\ delivered = 0
    /\ buffer = << >>
    /\ handled = << >>
    /\ reading = FALSE
    /\ cuts = {}

vars == <<chatVars, restVars>>


\* ------------------------------------------------------- the session cache
\* A Message of the cached ChatSession.  via, call and stream are not fields
\* of the program's Message: they record which send produced the entry and
\* what that send's stream had carried when the entry was written.
Message(role, id, content, sources, via, call, stream) ==
    [role |-> role, id |-> id, content |-> content, sources |-> sources,
     via |-> via, call |-> call, stream |-> stream]

NoStream ==
    \* nDone: the done events, counted up to 2
    [tokens |-> EmptyText, lastSources |-> NoSources, nDone |-> 0, doneId |-> "",
     sawError |-> FALSE, cancelled |-> FALSE, shape |-> "start"]

PriorMessage ==
    Message("user", "user", <<"q", "0">>, NoSources, "loaded", 0, NoStream)

\* The cache holds the session (with the messages the server returned) or not.
InitialSessions ==
    {[present |-> FALSE, messages |-> << >>],
     [present |-> TRUE, messages |-> <<PriorMessage>>]}

\* The updater makes an entry for a session the cache does not hold.
AppendPairCreatesEntry(old, userMessage, assistantMessage) ==
    [present |-> TRUE, messages |-> old.messages \o <<userMessage, assistantMessage>>]

\* queryClient.setQueryData(CHAT_SESSION(id), old => ...) of both send paths.
AppendPair(old, userMessage, assistantMessage) ==
    IF ~old.present
    THEN old
    ELSE [old EXCEPT !.messages = @ \o <<userMessage, assistantMessage>>]

\* --------------------------------------------------- sendStreamingMessage
\* One invocation: its position, its arguments, what its closure captured,
\* its local variables and its controller's signal.  The record stream is
\* not program state: it records what the invocation's stream has carried.
IdleCall ==
    [pc |-> "idle",
     finalSessionId |-> NoSessionId,
     closureMessage |-> EmptyText,
     closureSources |-> NoSources,
     currentMessageId |-> "",
     aborted |-> FALSE,
     stream |-> NoStream]

InFlight(i) == calls[i].pc \in {"fetching", "reading"}

\* Whether the events so far are: non-empty tokens, one sources, one done.
NextShape(shape, data) ==
    CASE data.type = "token" /\ "content" \in DOMAIN data /\ shape \in {"start", "tokens"}
           -> "tokens"
      [] data.type = "sources" /\ "sources" \in DOMAIN data /\ shape = "tokens"
           -> "sourced"
      [] data.type = "done" /\ "message_id" \in DOMAIN data /\ shape = "sourced"
           -> "done"
      [] OTHER -> "other"

\* What the stream has carried, after one more event.
Carried(h, data) ==
    [tokens |-> IF data.type = "token" /\ "content" \in DOMAIN data
                THEN h.tokens \o data.content ELSE h.tokens,
     lastSources |-> IF data.type = "sources" /\ "sources" \in DOMAIN data
                     THEN data.sources ELSE h.lastSources,
     nDone |-> IF data.type = "done" /\ h.nDone < 2 THEN h.nDone + 1 ELSE h.nDone,
     doneId |-> IF data.type = "done" /\ "message_id" \in DOMAIN data
                THEN data.message_id ELSE h.doneId,
     sawError |-> h.sawError \/ data.type = "error",
     cancelled |-> h.cancelled,
     shape |-> NextShape(h.shape, data)]

\* What the loop body reads and writes while it handles the lines of a chunk.
LoopState(i) ==
    [message |-> streamingMessage,
     sources |-> streamingSources,
     currentMessageId |-> calls[i].currentMessageId,
     stream |-> calls[i].stream]

\* switch (data.type)
ApplyData(st, data) ==
    CASE data.type = "token" ->
           \* setStreamingMessage(prev => prev + (data.content || ''))
           LET content == IF "content" \in DOMAIN data THEN data.content ELSE EmptyText
           IN  [st EXCEPT !.message = @ \o content]
      [] data.type = "sources" ->
           IF "sources" \in DOMAIN data
           THEN [st EXCEPT !.sources = data.sources]
           ELSE st
      [] data.type = "done" ->
           IF "message_id" \in DOMAIN data
           THEN [st EXCEPT !.currentMessageId = data.message_id]
           ELSE st
      [] data.type = "error" ->
           \* throw new Error(...) inside the try whose catch only warns
           st

\* if (line.startsWith('data: ')) { try { JSON.parse ... } catch { warn } }
ApplyLine(st, line) ==
    IF line.startsWithData /\ line.parses
    THEN [ApplyData(st, line.data) EXCEPT !.stream = Carried(st.stream, line.data)]
    ELSE st

RECURSIVE ApplyLines(_, _)
ApplyLines(st, lines) ==
    IF lines = << >> THEN st
    ELSE ApplyLines(ApplyLine(st, Head(lines)), Tail(lines))

\* if (finalSessionId && currentMessageId && streamingMessage)
PersistCondition(c) ==
    /\ c.finalSessionId # NoSessionId
    /\ c.currentMessageId # ""
    /\ c.closureMessage # EmptyText

UserMessage(i, c) ==
    Message("user", "user", QuestionText(i), NoSources, "stream", i, c.stream)

AssistantMessage(i, c) ==
    Message("assistant", c.currentMessageId, c.closureMessage, c.closureSources,
            "stream", i, c.stream)

\* MessageInput.handleSubmit, ChatInterface.handleSendMessage and the hook
\* each test the isStreaming of the render they were created in (the text
\* sent is not blank and the input is not disabled).
HandleSubmitGuard == ~rendered.isStreaming
HandleSendMessageGuard == ~rendered.isStreaming
SendStreamingGuard == ~rendered.isStreaming

\* The session a send names, options.sessionId || sessionId: ChatInterface
\* passes the id of the session it shows or of the one it has just created.
SendSessionIds == SessionIds

\* What a render closes the callbacks over.  A callback created while
\* isStreaming is true returns at its guard, so the streamingMessage and
\* streamingSources it closes over are never read: they are left out.
Closure(streaming, message, sources) ==
    IF streaming
    THEN [isStreaming |-> TRUE, streamingMessage |-> EmptyText,
          streamingSources |-> NoSources]
    ELSE [isStreaming |-> FALSE, streamingMessage |-> message,
          streamingSources |-> sources]

CurrentState == Closure(isStreaming, streamingMessage, streamingSources)

\* The streaming hook and the send mutation as constructed.
ChatInit ==
    /\ isStreaming = FALSE
    /\ streamingMessage = EmptyText
    /\ streamingSources = NoSources
    /\ abortControllerRef = NoController
    /\ rendered = [isStreaming |-> FALSE, streamingMessage |-> EmptyText,
                   streamingSources |-> NoSources]
    /\ calls = [i \in Calls |-> IdleCall]
    /\ nCalls = 0
    /\ nLines = 0
    /\ session \in InitialSessions
    /\ toast = ""
    /\ requests = [r \in Requests |-> "idle"]
    /\ nRequests = 0

Init ==
    /\ ChatInit
    /\ ParseIdle
    /\ RestIdle

\* React re-renders: the callbacks now close over the current state.
Render ==
    /\ rendered # CurrentState
    /\ rendered' = CurrentState
    /\ UNCHANGED <<isStreaming, streamingMessage, streamingSources,
                   abortControllerRef, calls, nCalls, nLines, session, sendVars, restVars>>
    /\ toast' = ""

\* sendStreamingMessage up to the await of fetch.
Send(sid) ==
    /\ nCalls < MaxCalls
    /\ Cardinality({j \in Calls : InFlight(j)}) < MaxInFlight
    /\ HandleSubmitGuard
    /\ HandleSendMessageGuard
    /\ SendStreamingGuard
    /\ LET i == nCalls + 1 IN
         /\ isStreaming' = TRUE
         /\ streamingMessage' = EmptyText
         /\ streamingSources' = NoSources
         /\ abortControllerRef' = i
         /\ calls' = [calls EXCEPT ![i] =
                [IdleCall EXCEPT !.pc = "fetching",
                                 !.finalSessionId = sid,
                                 !.closureMessage = rendered.streamingMessage,
                                 !.closureSources = rendered.streamingSources]]
         /\ nCalls' = i
    /\ toast' = ""
    /\ UNCHANGED <<rendered, nLines, session, sendVars, restVars>>

\* if (isStreaming) return
SendRejected ==
    /\ ~SendStreamingGuard
    /\ toast' = ""
    /\ UNCHANGED <<hookVars, session, sendVars, restVars>>

\* catch (error) { if (error.name !== 'AbortError') toast(...) } finally { ... }
\* The invocation's local variables go out of scope; of what its stream
\* carried, only whether it carried an error event is kept.
Settle(i, description) ==
    /\ toast' = description
    /\ isStreaming' = FALSE
    /\ streamingMessage' = EmptyText
    /\ streamingSources' = NoSources
    /\ abortControllerRef' = NoController
    /\ calls' = [calls EXCEPT ![i] =
           [IdleCall EXCEPT !.pc = "settled",
                            !.stream.sawError = calls[i].stream.sawError]]
    /\ UNCHANGED <<rendered, nCalls, nLines, sendVars, restVars>>

\* error.message of what fetch or the checks after it throw, and of a read
\* that rejects when the connection breaks.
FetchErrors == {"HTTP error", "No response body", "Failed to fetch"}
ReadError == "Failed to fetch"

\* fetch resolved with an ok response and a body.
FetchOk(i) ==
    /\ calls[i].pc = "fetching"
    /\ ~calls[i].aborted
    /\ calls' = [calls EXCEPT ![i].pc = "reading"]
    /\ UNCHANGED <<isStreaming, streamingMessage, streamingSources,
                   abortControllerRef, rendered, nCalls, nLines, session, sendVars, restVars>>
    /\ toast' = ""

\* fetch rejected, !response.ok, or no body: catch, toast, finally.
FetchFails(i, reason) ==
    /\ calls[i].pc = "fetching"
    /\ ~calls[i].aborted
    /\ Settle(i, reason)
    /\ UNCHANGED session

\* reader.read() resolved with a chunk: every complete line of it is handled.
ReadChunk(i, chunk) ==
    /\ calls[i].pc = "reading"
    /\ ~calls[i].aborted
    /\ nLines + Len(chunk) <= MaxLines
    /\ LET st == ApplyLines(LoopState(i), chunk) IN
         /\ streamingMessage' = st.message
         /\ streamingSources' = st.sources
         /\ calls' = [calls EXCEPT ![i].currentMessageId = st.currentMessageId,
                                   ![i].stream = st.stream]
    /\ nLines' = nLines + Len(chunk)
    /\ toast' = ""
    /\ UNCHANGED <<isStreaming, abortControllerRef, rendered, nCalls, session,
                   sendVars, restVars>>

\* const { done, value } = await reader.read(), with done false.
ReadResolves(i) == \E chunk \in ChunksUpTo(MaxLines - nLines) : ReadChunk(i, chunk)

\* The cache is updated, but the loop is not left.
ReadEndKeepsReading(i) ==
    /\ calls[i].pc = "reading"
    /\ ~calls[i].aborted
    /\ session' = IF PersistCondition(calls[i])
                  THEN AppendPair(session, UserMessage(i, calls[i]),
                                  AssistantMessage(i, calls[i]))
                  ELSE session
    /\ toast' = ""
    /\ UNCHANGED <<hookVars, sendVars, restVars>>

\* reader.read() resolved with done: the loop ends, the cache is updated, finally.
ReadEnd(i) ==
    /\ calls[i].pc = "reading"
    /\ ~calls[i].aborted
    /\ session' = IF PersistCondition(calls[i])
                  THEN AppendPair(session, UserMessage(i, calls[i]),
                                  AssistantMessage(i, calls[i]))
                  ELSE session
    /\ Settle(i, "")

\* reader.read() rejected (the connection broke): catch, toast, finally.
ReadFails(i) ==
    /\ calls[i].pc = "reading"
    /\ ~calls[i].aborted
    /\ Settle(i, ReadError)
    /\ UNCHANGED session

\* cancelStreaming: aborts the controller the ref holds, if it holds one.
CancelStreaming ==
    /\ \E i \in Calls : InFlight(i)
    /\ calls' = [i \in Calls |->
          IF InFlight(i)
          THEN [calls[i] EXCEPT !.stream.cancelled = TRUE,
                                !.aborted = @ \/ abortControllerRef = i]
          ELSE calls[i]]
    /\ UNCHANGED <<isStreaming, streamingMessage, streamingSources,
                   abortControllerRef, rendered, nCalls, nLines, session, sendVars, restVars>>
    /\ toast' = ""

\* The pending fetch or read rejects with AbortError: no toast, finally.
AbortSettles(i) ==
    /\ InFlight(i)
    /\ calls[i].aborted
    /\ Settle(i, "")
    /\ UNCHANGED session

\* ------------------------------------------------------- useSendMessage
\* error.detail || 'Failed to send message.'
SendErrors == {"detail", "Failed to send message."}

SendUserMessage(r) ==
    Message("user", "user", QuestionText(r), NoSources, "send", r, NoStream)

\* response.message: the server's answer to request r.
ResponseMessage(r) ==
    Message("assistant", "m1", <<"r", ToString(r)>>, NoSources, "send", r, NoStream)

\* mutate(request): the POST is issued, whatever is still pending.
Mutate ==
    /\ nRequests < MaxRequests
    /\ nRequests' = nRequests + 1
    /\ requests' = [requests EXCEPT ![nRequests + 1] = "pending"]
    /\ toast' = ""
    /\ UNCHANGED <<restVars, hookVars, session>>

\* onSuccess(response, request)
SendSucceeds(r) ==
    /\ requests[r] = "pending"
    /\ requests' = [requests EXCEPT ![r] = "success"]
    /\ session' = AppendPair(session, SendUserMessage(r), ResponseMessage(r))
    /\ toast' = ""
    /\ UNCHANGED <<restVars, hookVars, nRequests>>

\* onError(error)
SendFails(r, description) ==
    /\ requests[r] = "pending"
    /\ requests' = [requests EXCEPT ![r] = "error"]
    /\ toast' = description
    /\ UNCHANGED <<restVars, hookVars, nRequests, session>>

NextSend ==
    \/ Mutate
    \/ \E r \in Requests : SendSucceeds(r)
    \/ \E r \in Requests, description \in SendErrors : SendFails(r, description)

SpecSend == Init /\ [][NextSend]_vars

\* ------------------------------------------------------------ the hook
Next ==
    \/ Render
    \/ \E sid \in SendSessionIds : Send(sid)
    \/ SendRejected
    \/ CancelStreaming
    \/ \E i \in Calls : FetchOk(i)
    \/ \E i \in Calls, reason \in FetchErrors : FetchFails(i, reason)
    \/ \E i \in Calls : ReadResolves(i)
    \/ \E i \in Calls : ReadEnd(i)
    \/ \E i \in Calls : ReadFails(i)
    \/ \E i \in Calls : AbortSettles(i)

Spec == Init /\ [][Next]_vars

\* ------------------------------------------------- the read loop, by character
\* The characters a response body is made of.  'data: ' is shortened to the
\* two characters d and : so that a chunk can still end inside the prefix.
Newline == "\n"
Chars == {"d", ":", "x", Newline}
DataPrefix == <<"d", ":">>

Responses == UNION {[1..n -> Chars] : n \in 0..MaxBytes}

\* The index of the first newline of s, 0 if it has none.
RECURSIVE IndexOfNewline(_, _)
IndexOfNewline(s, k) ==
    IF k > Len(s) THEN 0
    ELSE IF s[k] = Newline THEN k
    ELSE IndexOfNewline(s, k + 1)

\* buffer.split('\n'): the pieces between the newlines, at least one.
RECURSIVE Split(_)
Split(s) ==
    LET k == IndexOfNewline(s, 1) IN
      IF k = 0 THEN <<s>>
      ELSE <<SubSeq(s, 1, k - 1)>> \o Split(SubSeq(s, k + 1, Len(s)))

\* line.startsWith('data: ')
StartsWithData(line) ==
    /\ Len(line) >= Len(DataPrefix)
    /\ SubSeq(line, 1, Len(DataPrefix)) = DataPrefix

\* line.slice(6)
Payload(line) == SubSeq(line, Len(DataPrefix) + 1, Len(line))

\* for (const line of lines) if (line.startsWith('data: ')) { ... }: the
\* payloads the loop body hands to JSON.parse, in order.
RECURSIVE HandleLines(_)
HandleLines(lines) ==
    IF lines = << >> THEN << >>
    ELSE (IF StartsWithData(Head(lines)) THEN <<Payload(Head(lines))>> ELSE << >>)
           \o HandleLines(Tail(lines))

\* lines.pop(): all the pieces but the last.
Front(lines) == SubSeq(lines, 1, Len(lines) - 1)

\* A response starts to be read.
ParseInit ==
    /\ response \in Responses
    /\ delivered = 0
    /\ buffer = << >>
    /\ handled = << >>
    /\ reading = TRUE
    /\ cuts = {}

\* The chunk is split without what the buffer kept of the chunk before it.
ParseReadForgetsBuffer(n) ==
    /\ reading
    /\ delivered + n <= Len(response)
    /\ LET lines == Split(SubSeq(response, delivered + 1, delivered + n)) IN
         /\ buffer' = lines[Len(lines)]
         /\ handled' = handled \o HandleLines(Front(lines))
    /\ delivered' = delivered + n
    /\ cuts' = cuts \cup {delivered + n}
    /\ UNCHANGED <<response, reading, parseOthers>>

\* reader.read() resolves with the next n characters: buffer += decode(value),
\* lines = buffer.split('\n'), buffer = lines.pop() || '', the lines are handled.
ParseRead(n) ==
    /\ reading
    /\ delivered + n <= Len(response)
    /\ LET lines == Split(buffer \o SubSeq(response, delivered + 1, delivered + n)) IN
         /\ buffer' = lines[Len(lines)]
         /\ handled' = handled \o HandleLines(Front(lines))
    /\ delivered' = delivered + n
    /\ cuts' = cuts \cup {delivered + n}
    /\ UNCHANGED <<response, reading, parseOthers>>

\* reader.read() resolves with done: break.
ParseEnd ==
    /\ reading
    /\ delivered = Len(response)
    /\ reading' = FALSE
    /\ UNCHANGED <<response, delivered, buffer, handled, cuts, parseOthers>>

NextParse ==
    \/ \E n \in 1..MaxBytes : ParseRead(n)
    \/ ParseEnd

\* The application with only this part running.
InitParse ==
    /\ ChatInit
    /\ session.present
    /\ ParseInit
    /\ RestIdle

SpecParse == InitParse /\ [][NextParse]_vars

\* ------------------------------------------ useDocumentProcessingStatus
\* DocumentProcessingStatus.status
ProcessingStatuses == {"pending", "processing", "completed", "failed"}
PollInterval == 2000

\* Polling stops on completed only.
RefetchIntervalUntilCompleted(data) ==
    IF data = "completed" THEN NoTimer ELSE PollInterval

\* refetchInterval: (data) => ...
RefetchInterval(data) ==
    IF data = "completed" \/ data = "failed" THEN NoTimer ELSE PollInterval

\* enabled: !!documentId
StatusEnabled == documentId # ""

DocumentIds == {"", "doc1"}

\* The hook mounts: an enabled query fetches at once and arms its interval.
PollInit ==
    /\ documentId \in DocumentIds
    /\ statusData = NoStatus
    /\ statusFetch = IF StatusEnabled THEN "sent" ELSE "none"
    /\ refetchTimer = IF StatusEnabled THEN RefetchInterval(NoStatus) ELSE NoTimer
    /\ processing \in ProcessingStatuses
    /\ nPolls = 0

\* The ingestion pipeline moves the document on.
Progress ==
    /\ \/ processing = "pending" /\ processing' = "processing"
       \/ processing = "processing" /\ processing' \in {"completed", "failed"}
    /\ UNCHANGED <<documentId, statusData, statusFetch, refetchTimer, nPolls,
                   pollOthers>>

\* useReprocessDocument: the POST succeeds, the document is pending again and
\* onSuccess invalidates the status query, which refetches.
Reprocess ==
    /\ StatusEnabled
    /\ processing \in {"completed", "failed"}
    /\ processing' = "pending"
    /\ statusFetch' = "sent"
    /\ UNCHANGED <<documentId, statusData, refetchTimer, nPolls, pollOthers>>

\* The server answers the GET with the status the document has now.
StatusAnswered ==
    /\ statusFetch = "sent"
    /\ statusFetch' = processing
    /\ UNCHANGED <<documentId, statusData, refetchTimer, processing, nPolls,
                   pollOthers>>

\* queryFn resolves: the data is replaced and the interval is computed again.
StatusFetched ==
    /\ statusFetch \in ProcessingStatuses
    /\ statusData' = statusFetch
    /\ statusFetch' = "none"
    /\ refetchTimer' = RefetchInterval(statusFetch)
    /\ UNCHANGED <<documentId, processing, nPolls, pollOthers>>

\* queryFn rejects: the data stays and the interval is computed again.
StatusFetchFails ==
    /\ statusFetch # "none"
    /\ statusFetch' = "none"
    /\ refetchTimer' = RefetchInterval(statusData)
    /\ UNCHANGED <<documentId, statusData, processing, nPolls, pollOthers>>

\* The refetch interval fires: a fetch starts unless one is in flight.
PollFires ==
    /\ refetchTimer # NoTimer
    /\ nPolls < MaxPolls
    /\ nPolls' = nPolls + 1
    /\ statusFetch' = IF statusFetch = "none" THEN "sent" ELSE statusFetch
    /\ UNCHANGED <<documentId, statusData, refetchTimer, processing, pollOthers>>

\* The window regains focus: with staleTime 0 the query refetches.
RefetchOnFocus ==
    /\ StatusEnabled
    /\ statusFetch = "none"
    /\ statusFetch' = "sent"
    /\ UNCHANGED <<documentId, statusData, refetchTimer, processing, nPolls,
                   pollOthers>>

NextPoll ==
    \/ Progress
    \/ Reprocess
    \/ StatusAnswered
    \/ StatusFetched
    \/ StatusFetchFails
    \/ PollFires
    \/ RefetchOnFocus

\* The application with only this part running.
InitPoll ==
    /\ ChatInit
    /\ session.present
    /\ ParseIdle
    /\ PollInit
    /\ AuthIdle
    /\ ChunkIdle
    /\ IndexIdle
    /\ RetrieveIdle
    /\ PageInit
    /\ GuardIdle
    /\ ListIdle

SpecPoll == InitPoll /\ [][NextPoll]_vars

\* ------------------------------------------------- useAuthStore, useAuthChecker
\* The tokens are dropped but the store stays authenticated.
ClearedTokensOnly(st) ==
    [st EXCEPT !.tokens = NoTokens, !.expired = FALSE]

\* set({ user: null, tokens: { ...null }, isAuthenticated: false })
Cleared(st) ==
    [st EXCEPT !.user = NoUser, !.isAuthenticated = FALSE, !.tokens = NoTokens,
               !.expired = FALSE]

\* set({ user: response.user, tokens: { ... }, isAuthenticated: true }), with
\* expires_at = Date.now() + expires_in * 1000
SignedIn(st, o) ==
    [st EXCEPT !.user = o, !.isAuthenticated = TRUE, !.tokens = o, !.expired = FALSE]

\* What local storage can hold when the store is created.
StoredStates == {"none", "valid", "expired"}

AuthInit ==
    /\ store = InitialStore
    /\ stored \in StoredStates
    /\ initialized = FALSE
    /\ ops = [o \in AuthOps |-> IdleOp]
    /\ nOps = 0
    /\ checker = IdleChecker
    /\ writer = NoWriter
    /\ lastLogout = NoLogout

\* A call of refreshToken() begins: AuthService.refreshToken() is awaited.
StartOp(kind) ==
    /\ nOps < MaxAuthOps
    /\ nOps' = nOps + 1
    /\ ops' = [ops EXCEPT ![nOps + 1] = [IdleOp EXCEPT !.kind = kind, !.pc = "pending"]]

\* initializeAuth, run when the store is created.
InitializeAuth ==
    /\ ~initialized
    /\ initialized' = TRUE
    /\ IF stored = "none"
       THEN UNCHANGED <<store, ops, nOps>>
       ELSE /\ store' = [store EXCEPT !.user = StoredTokens,
                                      !.isAuthenticated = (stored = "valid"),
                                      !.tokens = StoredTokens,
                                      !.expired = (stored = "expired")]
            /\ IF stored = "expired"
               THEN StartOp("refresh")
               ELSE UNCHANGED <<ops, nOps>>
    /\ UNCHANGED <<stored, checker, writer, lastLogout, authOthers>>

\* login(credentials) and register(userData) up to their await.
StartSignIn(kind) ==
    /\ initialized
    /\ StartOp(kind)
    /\ store' = [store EXCEPT !.isLoading = TRUE]
    /\ UNCHANGED <<stored, initialized, checker, writer, lastLogout, authOthers>>

\* The call settles: what its request did and how its promise ends.
Settled(op, answer, outcome) ==
    [op EXCEPT !.pc = "done", !.response = answer, !.promise = outcome]

\* AuthService.login or register resolved.
SignInSucceeds(o) ==
    /\ ops[o].pc = "pending"
    /\ ops[o].kind \in {"login", "register"}
    /\ ops' = [ops EXCEPT ![o] = Settled(@, "ok", "resolved")]
    /\ store' = [SignedIn(store, o) EXCEPT !.isLoading = FALSE]
    /\ writer' = o
    /\ lastLogout' = NoLogout
    /\ UNCHANGED <<stored, initialized, nOps, checker, authOthers>>

\* AuthService.login or register rejected and the store is cleared.
SignInFailsClears(o) ==
    /\ ops[o].pc = "pending"
    /\ ops[o].kind \in {"login", "register"}
    /\ ops' = [ops EXCEPT ![o] = Settled(@, "error", "rejected")]
    /\ store' = [Cleared(store) EXCEPT !.isLoading = FALSE]
    /\ UNCHANGED <<stored, initialized, nOps, checker, writer, lastLogout, authOthers>>

\* AuthService.login or register rejected: set({ isLoading: false }), rethrow.
SignInFails(o) ==
    /\ ops[o].pc = "pending"
    /\ ops[o].kind \in {"login", "register"}
    /\ ops' = [ops EXCEPT ![o] = Settled(@, "error", "rejected")]
    /\ store' = [store EXCEPT !.isLoading = FALSE]
    /\ UNCHANGED <<stored, initialized, nOps, checker, writer, lastLogout, authOthers>>

\* logout() up to its await.
StartLogout ==
    /\ initialized
    /\ StartOp("logout")
    /\ store' = [store EXCEPT !.isLoading = TRUE]
    /\ UNCHANGED <<stored, initialized, checker, writer, lastLogout, authOthers>>

\* The logout request was answered, but the store is cleared only when it
\* succeeded.
LogoutSettlesInTry(o) ==
    /\ ops[o].pc = "pending"
    /\ ops[o].kind = "logout"
    /\ \E answer \in {"ok", "error"} :
         /\ ops' = [ops EXCEPT ![o] = Settled(@, answer, "resolved")]
         /\ store' = IF answer = "ok"
                     THEN [Cleared(store) EXCEPT !.isLoading = FALSE]
                     ELSE [store EXCEPT !.isLoading = FALSE]
    /\ checker' = IdleChecker
    /\ writer' = o
    /\ lastLogout' = nOps
    /\ UNCHANGED <<stored, initialized, nOps, authOthers>>

\* AuthService.logout settled either way: the catch swallows a failure,
\* finally clears the store, and the logout mutation of useLogout, the only
\* caller, runs queryClient.clear() in onSuccess: the auth-check query and
\* its data are removed from the cache.
LogoutSettles(o) ==
    /\ ops[o].pc = "pending"
    /\ ops[o].kind = "logout"
    /\ \E answer \in {"ok", "error"} :
         ops' = [ops EXCEPT ![o] = Settled(@, answer, "resolved")]
    /\ store' = [Cleared(store) EXCEPT !.isLoading = FALSE]
    /\ checker' = IdleChecker
    /\ writer' = o
    /\ lastLogout' = nOps
    /\ UNCHANGED <<stored, initialized, nOps, authOthers>>

\* checkAuth, when the refreshToken() it awaits is call o: return
\* get().isAuthenticated, or false from its catch.
CheckAuthReturns(o, result) ==
    IF checker.pc = "refreshing" /\ checker.awaits = o
    THEN [checker EXCEPT !.pc = "idle", !.data = result]
    ELSE checker

\* AuthService.refreshToken resolved with a response.
RefreshSucceeds(o) ==
    /\ ops[o].pc = "pending"
    /\ ops[o].kind = "refresh"
    /\ ops' = [ops EXCEPT ![o] = Settled(@, "ok", "resolved")]
    /\ store' = SignedIn(store, o)
    /\ checker' = CheckAuthReturns(o, "true")
    /\ writer' = o
    /\ lastLogout' = NoLogout
    /\ UNCHANGED <<stored, initialized, nOps, authOthers>>

\* AuthService.refreshToken failed and the store is left as it was.
RefreshFailsKeepsState(o) ==
    /\ ops[o].pc = "pending"
    /\ ops[o].kind = "refresh"
    /\ \E answer \in {"null", "error"} :
         ops' = [ops EXCEPT ![o] =
             Settled(@, answer, IF answer = "error" THEN "rejected" ELSE "resolved")]
    /\ checker' = CheckAuthReturns(o, "false")
    /\ UNCHANGED <<store, stored, initialized, nOps, writer, lastLogout, authOthers>>

\* AuthService.refreshToken resolved with nothing, or rejected: the store is
\* cleared, and the catch rethrows.
RefreshFails(o) ==
    /\ ops[o].pc = "pending"
    /\ ops[o].kind = "refresh"
    /\ \E answer \in {"null", "error"} :
         ops' = [ops EXCEPT ![o] =
             Settled(@, answer, IF answer = "error" THEN "rejected" ELSE "resolved")]
    /\ store' = Cleared(store)
    /\ checker' = CheckAuthReturns(o, "false")
    /\ writer' = o
    /\ UNCHANGED <<stored, initialized, nOps, lastLogout, authOthers>>

\* updateUser(user), from onSuccess of the profile mutation of useUpdateProfile.
UpdateUser ==
    /\ initialized
    /\ store.user # UpdatedUser
    /\ store' = [store EXCEPT !.user = UpdatedUser]
    /\ UNCHANGED <<stored, initialized, ops, nOps, checker, writer, lastLogout, authOthers>>

\* Date.now() reaches tokens.expires_at.
TokenExpires ==
    /\ store.tokens # NoTokens
    /\ ~store.expired
    /\ store' = [store EXCEPT !.expired = TRUE]
    /\ UNCHANGED <<stored, initialized, ops, nOps, checker, writer, lastLogout, authOthers>>

\* enabled: !isAuthenticated
CheckerEnabled == ~store.isAuthenticated

\* checkAuth() up to its return or its await of refreshToken(); checker holds
\* the call's position and what it returned.
CheckAuth ==
    /\ initialized
    /\ checker.pc = "idle"
    /\ IF ~store.isAuthenticated \/ store.tokens = NoTokens
       THEN /\ checker' = [checker EXCEPT !.data = "false"]
            /\ UNCHANGED <<ops, nOps>>
       ELSE IF store.expired
            THEN /\ StartOp("refresh")
                 /\ checker' = [checker EXCEPT !.pc = "refreshing", !.awaits = nOps + 1]
            ELSE /\ checker' = [checker EXCEPT !.data = "true"]
                 /\ UNCHANGED <<ops, nOps>>
    /\ UNCHANGED <<store, stored, initialized, writer, lastLogout, authOthers>>

\* The auth-check query runs checkAuth (on mount, every 5 minutes, on focus).
AuthCheckerRuns == CheckerEnabled /\ CheckAuth

NextAuth ==
    \/ InitializeAuth
    \/ \E kind \in {"login", "register"} : StartSignIn(kind)
    \/ \E o \in AuthOps : SignInSucceeds(o)
    \/ \E o \in AuthOps : SignInFails(o)
    \/ StartLogout
    \/ \E o \in AuthOps : LogoutSettles(o)
    \/ \E o \in AuthOps : RefreshSucceeds(o)
    \/ \E o \in AuthOps : RefreshFails(o)
    \/ UpdateUser
    \/ TokenExpires
    \/ AuthCheckerRuns

\* The timers of the auth-check query fire and the requests are answered.
AuthFairness ==
    /\ WF_vars(InitializeAuth)
    /\ WF_vars(AuthCheckerRuns)
    /\ WF_vars(\E o \in AuthOps : SignInSucceeds(o) \/ SignInFails(o))
    /\ WF_vars(\E o \in AuthOps : LogoutSettles(o))
    /\ WF_vars(\E o \in AuthOps : RefreshSucceeds(o) \/ RefreshFails(o))

\* The application with only this part running.
InitAuth ==
    /\ ChatInit
    /\ session.present
    /\ ParseIdle
    /\ PollIdle
    /\ AuthInit
    /\ ChunkIdle
    /\ IndexIdle
    /\ RetrieveIdle
    /\ PageInit
    /\ GuardIdle
    /\ ListIdle

SpecAuth == InitAuth /\ [][NextAuth]_vars /\ AuthFairness

\* The store with checkAuth also called directly, whatever the store holds.
NextStore ==
    \/ NextAuth
    \/ CheckAuth

SpecStore == InitAuth /\ [][NextStore]_vars

\* ------------------------------------------------------------- AuthGuard
\* What AuthGuard returns for its props, mounted and the store, with the
\* isLoading test left out.
AuthGuardIgnoresLoading(g, st) ==
    IF ~g.mounted THEN "spinner"
    ELSE IF ~g.requireAuth THEN "children"
    ELSE IF ~st.isAuthenticated
         THEN (IF g.fallback THEN "fallback" ELSE "redirect")
    ELSE "children"

\* What AuthGuard returns for its props, mounted and the store: the
\* spinner, the fallback, the spinner after router.push(redirectTo), or
\* the children.
AuthGuard(g, st) ==
    IF ~g.mounted THEN "spinner"
    ELSE IF ~g.requireAuth THEN "children"
    ELSE IF st.isLoading THEN "spinner"
    ELSE IF ~st.isAuthenticated
         THEN (IF g.fallback THEN "fallback" ELSE "redirect")
    ELSE "children"

\* An AuthGuard enters the tree with its props; ProtectedRoute passes
\* requireAuth = true and a fallback.
GuardInit ==
    /\ guard \in [requireAuth : BOOLEAN, fallback : BOOLEAN, mounted : {FALSE},
                   view : {"none"}]
    /\ guard.requireAuth \/ ~guard.fallback

\* React renders AuthGuard: first when it enters the tree, then whenever
\* mounted or the store it subscribes to has changed.
GuardRender ==
    /\ guard.view # AuthGuard(guard, store)
    /\ guard' = [guard EXCEPT !.view = AuthGuard(guard, store)]
    /\ UNCHANGED <<authVars, guardOthers>>

\* useEffect(() => setMounted(true), []), after the first render.
GuardMounts ==
    /\ guard.view # "none"
    /\ ~guard.mounted
    /\ guard' = [guard EXCEPT !.mounted = TRUE]
    /\ UNCHANGED <<authVars, guardOthers>>

NextGuard ==
    \/ NextAuth
    \/ GuardRender
    \/ GuardMounts

\* The auth store with an AuthGuard in the tree.
InitGuard ==
    /\ ChatInit
    /\ session.present
    /\ ParseIdle
    /\ PollIdle
    /\ AuthInit
    /\ ChunkIdle
    /\ IndexIdle
    /\ RetrieveIdle
    /\ PageInit
    /\ GuardInit
    /\ ListIdle

SpecGuard == InitGuard /\ [][NextGuard]_vars

\* ------------------------------- useChatSessions and the session mutations
ListSessionIds == 1..MaxSessions

\* The ids of a set, newest first.
RECURSIVE NewestFirst(_)
NewestFirst(S) ==
    IF S = {} THEN << >>
    ELSE LET newest == CHOOSE a \in S : \A b \in S : b <= a
         IN  <<newest>> \o NewestFirst(S \ {newest})

\* old.sessions.filter(session => session.id !== deletedId)
RECURSIVE WithoutSession(_, _)
WithoutSession(sessions, deletedId) ==
    IF sessions = << >> THEN << >>
    ELSE (IF Head(sessions) = deletedId THEN << >> ELSE <<Head(sessions)>>)
           \o WithoutSession(Tail(sessions), deletedId)

\* The sessions the server holds when the application starts; nothing is
\* cached yet.
ListInit ==
    /\ nSessions \in 0..1
    /\ serverSessions = 1..nSessions
    /\ sessionsCache = NoList

\* The query of useChatSessions is answered: GET /api/chat/sessions.
FetchSessions ==
    /\ sessionsCache' = [sessions |-> NewestFirst(serverSessions),
                         total |-> Cardinality(serverSessions), cached |-> TRUE]
    /\ UNCHANGED <<serverSessions, nSessions, listOthers>>

\* useCreateChatSession: the server creates the session and onSuccess puts
\* it in front of the cached list, or caches a list of it alone.
CreateSession ==
    /\ nSessions < MaxSessions
    /\ LET newSession == nSessions + 1 IN
         /\ nSessions' = newSession
         /\ serverSessions' = serverSessions \cup {newSession}
         /\ sessionsCache' =
              IF ~sessionsCache.cached
              THEN [sessions |-> <<newSession>>, total |-> 1, cached |-> TRUE]
              ELSE [sessions |-> <<newSession>> \o sessionsCache.sessions,
                    total |-> sessionsCache.total + 1, cached |-> TRUE]
    /\ UNCHANGED listOthers

\* useDeleteChatSession, from the sidebar's list or from the header of the
\* page of session deletedId: the server deletes it and onSuccess updates
\* the cached list, if there is one.
DeleteSession(deletedId) ==
    /\ deletedId \in serverSessions
    /\ serverSessions' = serverSessions \ {deletedId}
    /\ sessionsCache' =
         IF ~sessionsCache.cached
         THEN sessionsCache
         ELSE [sessions |-> WithoutSession(sessionsCache.sessions, deletedId),
               total |-> sessionsCache.total - 1, cached |-> TRUE]
    /\ UNCHANGED <<nSessions, listOthers>>

\* The create mutation succeeds in another tab of the application: the
\* server holds the session, this tab's cache does not.
CreateInOtherTab ==
    /\ nSessions < MaxSessions
    /\ nSessions' = nSessions + 1
    /\ serverSessions' = serverSessions \cup {nSessions + 1}
    /\ UNCHANGED <<sessionsCache, listOthers>>

NextList ==
    \/ FetchSessions
    \/ CreateSession
    \/ CreateInOtherTab
    \/ \E deletedId \in ListSessionIds : DeleteSession(deletedId)

\* The application with only this part running.
InitList ==
    /\ ChatInit
    /\ session.present
    /\ ParseIdle
    /\ PollIdle
    /\ AuthIdle
    /\ ChunkIdle
    /\ IndexIdle
    /\ RetrieveIdle
    /\ PageInit
    /\ GuardIdle
    /\ ListInit

SpecList == InitList /\ [][NextList]_vars

\* ----------------------------------------------------------- the Chunker
\* The configurations and texts: the small ones, and the scenario of a
\* 2500-character document with chunk_size 1000 and overlap 200.  A
\* configuration with overlap >= chunk_size is rejected at startup.
ChunkInputs ==
    {[textLen |-> n, chunkSize |-> c, overlap |-> v] :
        n \in 0..MaxTextLen, c \in 1..MaxChunkSize, v \in 0..(MaxChunkSize - 1)}
      \cup {[textLen |-> 2500, chunkSize |-> 1000, overlap |-> 200]}

ValidChunkInputs == {in \in ChunkInputs : in.overlap < in.chunkSize}

\* A chunk takes up to chunk_size characters.
ChunkEnd(start, size, len) == IF start + size < len THEN start + size ELSE len

\* The next chunk does not backtrack.
NextChunkStartNoBacktrack(end, overlap) == end

\* The next chunk backtracks overlap characters into the chunk before it.
NextChunkStart(end, overlap) == end - overlap

ChunkInit ==
    /\ \E in \in ValidChunkInputs :
         /\ textLen = in.textLen
         /\ chunkSize = in.chunkSize
         /\ chunkOverlap = in.overlap
    /\ chunks = << >>
    /\ chunkStart = 0
    /\ chunked = FALSE

\* The chunker produces its next chunk; the one that reaches the end of the
\* text is the last.
EmitChunk ==
    /\ ~chunked
    /\ LET end == ChunkEnd(chunkStart, chunkSize, textLen) IN
         /\ chunks' = Append(chunks, [start |-> chunkStart, end |-> end])
         /\ chunked' = (end = textLen)
         /\ chunkStart' = NextChunkStart(end, chunkOverlap)
    /\ UNCHANGED <<textLen, chunkSize, chunkOverlap, chunkOthers>>

NextChunk == EmitChunk

\* The application with only this part running.
InitChunk ==
    /\ ChatInit
    /\ session.present
    /\ ParseIdle
    /\ PollIdle
    /\ AuthIdle
    /\ ChunkInit
    /\ IndexIdle
    /\ RetrieveIdle
    /\ PageInit
    /\ GuardIdle
    /\ ListIdle

SpecChunk == InitChunk /\ [][NextChunk]_vars

\* --------------------------------------------------------- the VectorIndex
\* The chunks a query matches: those of one document, or the first chunks
\* of every document.
Queries ==
    {EntriesOf(d) : d \in Documents}
      \cup {{e \in Entries : e.chunk <= m} : m \in ChunkIndices}

\* Every document is indexed with all its chunks.
IndexInit ==
    /\ index = Entries
    /\ deleting = {}
    /\ deleted = {}
    /\ searches = [s \in Searches |-> IdleSearch]

\* delete(document_id) is called.
DeleteStart(d) ==
    /\ d \notin deleting \cup deleted
    /\ deleting' = deleting \cup {d}
    /\ UNCHANGED <<index, deleted, searches, indexOthers>>

\* The delete removes one chunk at a time from the entries searches read.
DeleteOneChunk(d) ==
    /\ d \in deleting
    /\ \E e \in index \cap EntriesOf(d) :
         /\ index' = index \ {e}
         /\ IF index \cap EntriesOf(d) = {e}
            THEN deleting' = deleting \ {d} /\ deleted' = deleted \cup {d}
            ELSE UNCHANGED <<deleting, deleted>>
    /\ UNCHANGED <<searches, indexOthers>>

\* The delete completes: the entries without the document's chunks replace
\* the entries searches read, in one step.
DeleteCommit(d) ==
    /\ d \in deleting
    /\ index' = index \ EntriesOf(d)
    /\ deleting' = deleting \ {d}
    /\ deleted' = deleted \cup {d}
    /\ UNCHANGED <<searches, indexOthers>>

\* search(query_vector, k) begins: it reads the entries as they are now.
SearchStart(s, q) ==
    /\ searches[s].pc = "idle"
    /\ \A t \in Searches : t < s => searches[t].pc # "idle"
    /\ searches' = [searches EXCEPT ![s] =
           [pc |-> "scanning", snapshot |-> index, matching |-> q, scanned |-> {},
            results |-> {}, deletedBefore |-> deleted]]
    /\ UNCHANGED <<index, deleting, deleted, indexOthers>>

\* The search scores one more entry of its snapshot.
SearchScan(s) ==
    /\ searches[s].pc = "scanning"
    /\ \E e \in searches[s].snapshot \ searches[s].scanned :
         searches' = [searches EXCEPT
             ![s].scanned = @ \cup {e},
             ![s].results = IF e \in searches[s].matching THEN @ \cup {e} ELSE @]
    /\ UNCHANGED <<index, deleting, deleted, indexOthers>>

\* The search has scored its whole snapshot and returns.
SearchReturn(s) ==
    /\ searches[s].pc = "scanning"
    /\ searches[s].scanned = searches[s].snapshot
    /\ searches' = [searches EXCEPT ![s].pc = "done"]
    /\ UNCHANGED <<index, deleting, deleted, indexOthers>>

NextIndex ==
    \/ \E d \in Documents : DeleteStart(d)
    \/ \E d \in Documents : DeleteCommit(d)
    \/ \E s \in Searches, q \in Queries : SearchStart(s, q)
    \/ \E s \in Searches : SearchScan(s)
    \/ \E s \in Searches : SearchReturn(s)

\* The application with only this part running.
InitIndex ==
    /\ ChatInit
    /\ session.present
    /\ ParseIdle
    /\ PollIdle
    /\ AuthIdle
    /\ ChunkIdle
    /\ IndexInit
    /\ RetrieveIdle
    /\ PageInit
    /\ GuardIdle
    /\ ListIdle

SpecIndex == InitIndex /\ [][NextIndex]_vars

\* ----------------------------------------------------------- the Retriever
\* Similarity scores in hundredths: 0.40, 0.87 and 0.91, and the relevance
\* threshold 0.5, of the scenario.
ScoreValues == {40, 87, 91}
RelevanceThreshold == 50
OverfetchFactor == 2
ProximityWindow == 1

DocumentRank(d) == IF d = "d1" THEN 1 ELSE 2

Candidate(e, score) == [document |-> e.document, chunk |-> e.chunk, score |-> score]

\* a is ranked before b: higher score, then lower chunk sequence index.
RankedBefore(a, b) ==
    \/ a.score > b.score
    \/ a.score = b.score /\ a.chunk < b.chunk
    \/ /\ a.score = b.score
       /\ a.chunk = b.chunk
       /\ DocumentRank(a.document) < DocumentRank(b.document)

\* The candidates of a set, best first.
RECURSIVE Ranked(_)
Ranked(S) ==
    IF S = {} THEN << >>
    ELSE LET best == CHOOSE a \in S : \A b \in S \ {a} : RankedBefore(a, b)
         IN  <<best>> \o Ranked(S \ {best})

Take(seq, n) == SubSeq(seq, 1, IF Len(seq) < n THEN Len(seq) ELSE n)

\* VectorIndex.search(query_vector, k'): the k' most similar entries.
Search(kPrime) ==
    Take(Ranked({Candidate(e, scores[e]) : e \in {x \in Entries : scores[x] # NotIndexed}}),
         kPrime)

\* Whether two candidates are chunks of one document within the proximity window.
Near(a, b) ==
    /\ a.document = b.document
    /\ a.chunk - b.chunk <= ProximityWindow
    /\ b.chunk - a.chunk <= ProximityWindow

\* Nothing is deduplicated.
RECURSIVE KeepAll(_, _)
KeepAll(kept, rest) ==
    IF rest = << >> THEN kept ELSE KeepAll(Append(kept, Head(rest)), Tail(rest))

\* Deduplication: a candidate near a better one that was kept is dropped.
RECURSIVE Deduplicate(_, _)
Deduplicate(kept, rest) ==
    IF rest = << >> THEN kept
    ELSE IF \E i \in DOMAIN kept : Near(kept[i], Head(rest))
         THEN Deduplicate(kept, Tail(rest))
         ELSE Deduplicate(Append(kept, Head(rest)), Tail(rest))

\* The candidates that exceed the relevance threshold.
RECURSIVE AboveThreshold(_)
AboveThreshold(seq) ==
    IF seq = << >> THEN << >>
    ELSE (IF Head(seq).score > RelevanceThreshold THEN <<Head(seq)>> ELSE << >>)
           \o AboveThreshold(Tail(seq))

\* A query against an index: some chunks indexed, each with its similarity.
RetrieveInit ==
    /\ scores \in [Entries -> ScoreValues \cup {NotIndexed}]
    /\ topK \in 1..MaxK
    /\ candidates = << >>
    /\ retrievePc = "search"

RetrieveSearch ==
    /\ retrievePc = "search"
    /\ candidates' = Search(topK * OverfetchFactor)
    /\ retrievePc' = "threshold"
    /\ UNCHANGED <<scores, topK, retrieveOthers>>

RetrieveThreshold ==
    /\ retrievePc = "threshold"
    /\ candidates' = AboveThreshold(candidates)
    /\ retrievePc' = "deduplicate"
    /\ UNCHANGED <<scores, topK, retrieveOthers>>

RetrieveDeduplicate ==
    /\ retrievePc = "deduplicate"
    /\ candidates' = Deduplicate(<< >>, candidates)
    /\ retrievePc' = "truncate"
    /\ UNCHANGED <<scores, topK, retrieveOthers>>

RetrieveTruncate ==
    /\ retrievePc = "truncate"
    /\ candidates' = Take(candidates, topK)
    /\ retrievePc' = "done"
    /\ UNCHANGED <<scores, topK, retrieveOthers>>

NextRetrieve ==
    \/ RetrieveSearch
    \/ RetrieveThreshold
    \/ RetrieveDeduplicate
    \/ RetrieveTruncate

\* The application with only this part running.
InitRetrieve ==
    /\ ChatInit
    /\ session.present
    /\ ParseIdle
    /\ PollIdle
    /\ AuthIdle
    /\ ChunkIdle
    /\ IndexIdle
    /\ RetrieveInit
    /\ PageInit
    /\ GuardIdle
    /\ ListIdle

SpecRetrieve == InitRetrieve /\ [][NextRetrieve]_vars

\* ---------------------------------------------------- the document chat page
PageDocuments == {"a.pdf", "b.pdf"}

\* handleDocumentSelect(document), from a click in DocumentsSidebar.
HandleDocumentSelect(document) ==
    /\ selectedDocument' = document
    /\ messages' = << >>
    /\ UNCHANGED <<isLoading, timeouts, nPageSends, pageOthers>>

\* ChatInterface: the input and the send button are disabled without a
\* selected document and while loading. React renders the state a click or a
\* timer callback has set before it handles the next event, so the props
\* and the handlers of an event hold the current state.
HandleSendGuard == selectedDocument # NoDocument /\ ~isLoading

\* ChatInterface.handleSend calling handleSendMessage(messageText), up to
\* setTimeout: the callback closes over this render's selectedDocument. The
\* question is about the document selected when it is asked.
HandleSendMessage ==
    /\ nPageSends < MaxPageSends
    /\ HandleSendGuard
    /\ LET t == nPageSends + 1 IN
         /\ messages' = Append(messages, [role |-> "user", content |-> t,
                                          document |-> selectedDocument])
         /\ isLoading' = TRUE
         /\ timeouts' = [timeouts EXCEPT ![t] =
                [pending |-> TRUE, messageText |-> t,
                 selectedDocument |-> selectedDocument]]
         /\ nPageSends' = t
    /\ UNCHANGED <<selectedDocument, pageOthers>>

\* The setTimeout callback runs: the placeholder reply, which names the
\* closure's document, is appended.
TimeoutFires(t) ==
    /\ timeouts[t].pending
    /\ messages' = Append(messages, [role |-> "assistant",
                                     content |-> timeouts[t].messageText,
                                     document |-> timeouts[t].selectedDocument])
    /\ isLoading' = FALSE
    /\ timeouts' = [timeouts EXCEPT ![t] = NoTimeout]
    /\ UNCHANGED <<selectedDocument, nPageSends, pageOthers>>

NextPage ==
    \/ \E document \in PageDocuments : HandleDocumentSelect(document)
    \/ HandleSendMessage
    \/ \E t \in PageSends : TimeoutFires(t)

SpecPage == Init /\ [][NextPage]_vars

\* ================================================================ claims
LogIndices == DOMAIN session.messages

\* The entries of the session's message log that streaming send i wrote.
StreamEntries(i, role) ==
    {k \in LogIndices : /\ session.messages[k].via = "stream"
                        /\ session.messages[k].call = i
                        /\ session.messages[k].role = role}

\* The fields of a Message the program stores.
Stored(m) == [role |-> m.role, id |-> m.id, content |-> m.content, sources |-> m.sources]

IsPrefix(s, t) == Len(s) <= Len(t) /\ SubSeq(t, 1, Len(s)) = s

\* Invocation i leaves the loop because the stream closed, in this step.
StreamCloses(i) ==
    /\ calls[i].pc = "reading"
    /\ ~calls[i].aborted
    /\ calls'[i].pc = "settled"
    /\ toast' = ""

\* Invocation i settles in this step, on whatever path.
Settles(i) == InFlight(i) /\ calls'[i].pc = "settled"

\* C1: at most one answer stream is in flight: an invocation made while an
\* earlier one has not settled is rejected and issues no request.
C1_OneStreamInFlight == Cardinality({i \in Calls : InFlight(i)}) <= 1

\* C2: a send during whose flight cancelStreaming was called adds neither its
\* user message nor an assistant message to the session's message log.
C2_CancelAddsNothing ==
    \A k \in LogIndices :
        session.messages[k].via = "stream" => ~session.messages[k].stream.cancelled

\* C3: when the stream of a send against a cached session carried non-empty
\* tokens t1..tn, then one sources event S, then done(m), and closes, the log
\* gains the user message followed by the assistant message with id m,
\* content t1..tn and sources S.
C3_ScenarioIsPersisted ==
    [][\A i \in Calls :
          (StreamCloses(i) /\ calls[i].stream.shape = "done" /\ session.present)
          => /\ Len(session'.messages) = Len(session.messages) + 2
             /\ SubSeq(session'.messages, 1, Len(session.messages)) = session.messages
             /\ Stored(session'.messages[Len(session.messages) + 1])
                  = [role |-> "user", id |-> "user", content |-> QuestionText(i),
                     sources |-> NoSources]
             /\ Stored(session'.messages[Len(session.messages) + 2])
                  = [role |-> "assistant", id |-> calls[i].stream.doneId,
                     content |-> calls[i].stream.tokens,
                     sources |-> calls[i].stream.lastSources]]_vars

\* C4: no assistant message of a stream that carried an error event is in
\* the session's message log.
C4_ErrorAddsNoAssistant ==
    \A k \in LogIndices :
        (session.messages[k].via = "stream" /\ session.messages[k].role = "assistant")
        => ~session.messages[k].stream.sawError

\* C5: one streaming send adds at most one assistant message and at most one
\* user message to the session's message log.
C5_AtMostOnePair ==
    \A i \in Calls : /\ Cardinality(StreamEntries(i, "assistant")) <= 1
                     /\ Cardinality(StreamEntries(i, "user")) <= 1

\* A send whose stream carried two done events has written its assistant message.
C5_Witness ==
    \E k \in LogIndices : /\ session.messages[k].via = "stream"
                          /\ session.messages[k].role = "assistant"
                          /\ session.messages[k].stream.nDone = 2

\* C6: the pairs of the non-streaming sends are in the log in request order.
C6_RequestOrder ==
    \A j, k \in LogIndices :
        (/\ j < k
         /\ session.messages[j].via = "send"
         /\ session.messages[k].via = "send")
        => session.messages[j].call <= session.messages[k].call

\* C7: the step that handles an error event ends the invocation and raises
\* the 'Streaming failed' toast with the failure reason.
C7_ErrorEventFailsVisibly ==
    [][\A i \in Calls :
          (~calls[i].stream.sawError /\ calls'[i].stream.sawError)
          => /\ calls'[i].pc = "settled"
             /\ toast' \in ErrorReasons \cup {DefaultError}]_vars

\* C8: once a done event has been handled, nothing the stream carries later
\* changes its text, its sources or the message id.
C8_DoneIsTerminal ==
    [][\A i \in Calls :
          (calls[i].pc = "reading" /\ calls[i].stream.nDone > 0 /\ calls'[i].pc = "reading")
          => /\ calls'[i].stream.tokens = calls[i].stream.tokens
             /\ calls'[i].stream.lastSources = calls[i].stream.lastSources
             /\ calls'[i].currentMessageId = calls[i].currentMessageId]_vars

\* C9: every invocation that settles leaves the hook idle, and after
\* cancelStreaming no stream that was in flight appends a further token.
C9_ReturnsToIdle ==
    [][\A i \in Calls :
          /\ Settles(i) => /\ ~isStreaming'
                           /\ streamingMessage' = EmptyText
                           /\ streamingSources' = NoSources
                           /\ abortControllerRef' = NoController
          /\ (calls[i].stream.cancelled /\ InFlight(i) /\ calls'[i].pc = "reading")
             => calls'[i].stream.tokens = calls[i].stream.tokens]_vars

\* C10: while a stream is in flight streamingMessage is the concatenation of
\* the tokens that stream has carried so far, and each value is a prefix of
\* the next.
C10_MessageGrowsByAppending ==
    [][/\ \A i \in Calls :
             calls'[i].pc = "reading" => streamingMessage' = calls'[i].stream.tokens
       /\ (\E i \in Calls : InFlight(i) /\ calls'[i].pc \in {"fetching", "reading"})
             => IsPrefix(streamingMessage, streamingMessage')]_vars

\* The 'data: ' lines of a whole response, in order.
DataLinesOf(r) == HandleLines(Split(r))

Delivered == SubSeq(response, 1, delivered)
DeliveredPieces == Split(Delivered)

C13_PollsWhileProcessing ==
    /\ StatusEnabled =>
         /\ statusData \in {NoStatus, "pending", "processing"} => refetchTimer = 2000
         /\ statusData \in {"completed", "failed"} => refetchTimer = NoTimer
    /\ ~StatusEnabled => (refetchTimer = NoTimer /\ nPolls = 0)

\* Polls have fetched the status until completed was fetched, and the
\* interval is no longer armed.
C13_Witness ==
    /\ StatusEnabled
    /\ nPolls >= 2
    /\ statusData = "completed"
    /\ statusFetch = "none"
    /\ refetchTimer = NoTimer

AuthenticatedAndExpired == store.isAuthenticated /\ store.expired

\* C14: whenever the store is authenticated and the access token has
\* expired, the auth-check query eventually runs checkAuth into refreshToken
\* (unless the store stops being authenticated with an expired token first).
C14_ExpiredTokenRefreshed ==
    AuthenticatedAndExpired ~> (checker.pc = "refreshing" \/ ~AuthenticatedAndExpired)

C16_DeleteIsAtomic ==
    \A s \in Searches : searches[s].pc = "done" =>
        \A d \in Documents :
            /\ searches[s].results \cap EntriesOf(d)
                 \in {{}, searches[s].matching \cap EntriesOf(d)}
            /\ d \in searches[s].deletedBefore
                 => searches[s].results \cap EntriesOf(d) = {}

\* A document has been deleted; a search that began before the delete
\* completed has returned with chunks of it, and a search whose query matches
\* the document and that began after the delete has returned.
C16_Witness ==
    \E s, t \in Searches, d \in Documents :
        /\ searches[s].pc = "done"
        /\ searches[t].pc = "done"
        /\ d \in deleted
        /\ d \notin searches[s].deletedBefore
        /\ searches[s].results \cap EntriesOf(d) # {}
        /\ d \in searches[t].deletedBefore
        /\ searches[t].matching \cap EntriesOf(d) # {}

\* The indexed chunks and their candidates.
Indexed == {e \in Entries : scores[e] # NotIndexed}
Returned == {candidates[i] : i \in DOMAIN candidates}

\* C17: what retrieve returns has at most k candidates, each an indexed chunk
\* scored above the relevance threshold, no two of one document within the
\* proximity window, best first with equal scores ordered by lower chunk
\* index; with candidates scored 0.91, 0.87 and 0.40 (the first two of
\* different documents), threshold 0.5 and k = 3 it is the first two.
C17_RetrieveContract ==
    retrievePc = "done" =>
      /\ Len(candidates) <= topK
      /\ \A i \in DOMAIN candidates :
           /\ [document |-> candidates[i].document, chunk |-> candidates[i].chunk]
                \in Indexed
           /\ candidates[i].score
                = scores[[document |-> candidates[i].document,
                          chunk |-> candidates[i].chunk]]
           /\ candidates[i].score > 50
      /\ \A i, j \in DOMAIN candidates :
           i < j =>
             /\ ~(/\ candidates[i].document = candidates[j].document
                  /\ candidates[i].chunk - candidates[j].chunk \in {-1, 0, 1})
             /\ candidates[i].score >= candidates[j].score
             /\ candidates[i].score = candidates[j].score
                  => candidates[i].chunk <= candidates[j].chunk
      /\ \A a, b, c \in Indexed :
           (/\ Indexed = {a, b, c}
            /\ topK = 3
            /\ scores[a] = 91 /\ scores[b] = 87 /\ scores[c] = 40
            /\ a.document # b.document)
             => candidates = <<Candidate(a, 91), Candidate(b, 87)>>

\* A retrieval that returned two equally scored chunks, the lower chunk index
\* first, and left out a chunk above the threshold next to a returned one.
C17_Witness ==
    /\ retrievePc = "done"
    /\ Len(candidates) = 2
    /\ candidates[1].score = candidates[2].score
    /\ candidates[1].chunk < candidates[2].chunk
    /\ \E e \in Indexed :
         /\ scores[e] > 50
         /\ Candidate(e, scores[e]) \notin Returned
         /\ \E r \in Returned : r.document = e.document

\* C19: from the moment a stream request is issued until it settles, the
\* abort handle the hook holds is that request's controller, so a
\* cancelStreaming call in that interval aborts that request.
C19_CancelReachesStream ==
    \A i \in Calls :
        InFlight(i) => /\ abortControllerRef = i
                       /\ calls[i].stream.cancelled => calls[i].aborted

\* C20: the message list of the document chat page holds only the
\* conversation about the selected document: selecting another document
\* leaves it empty, and no message about another document is in it.
C20_OnlySelectedDocument ==
    [][/\ selectedDocument' # selectedDocument => messages' = << >>
       /\ \A k \in DOMAIN messages' : messages'[k].document = selectedDocument']_vars

\* Call o of refreshToken completes in this step.
RefreshCompletes(o) ==
    ops[o].kind = "refresh" /\ ops[o].pc = "pending" /\ ops'[o].pc = "done"

\* C18: after a logout has completed the store becomes authenticated only by
\* a login, register or refresh that started after that logout completed;
\* and a refresh that completes after a later-started login, register or
\* refresh has succeeded leaves the tokens and isAuthenticated as they are.
C18_NoStaleOverwrite ==
    [][/\ (~store.isAuthenticated /\ store'.isAuthenticated /\ lastLogout # NoLogout)
            => writer' > lastLogout
       /\ \A o \in AuthOps :
            (RefreshCompletes(o) /\ writer > o /\ store.tokens = writer)
            => /\ store'.tokens = store.tokens
               /\ store'.isAuthenticated = store.isAuthenticated]_vars

\* C21: whenever the auth store is authenticated, its user and its
\* access_token, refresh_token and expires_at are non-null.
C21_AuthenticatedIsComplete ==
    store.isAuthenticated => store.user # NoUser /\ store.tokens # NoTokens

\* The store is authenticated again after a failed refresh had cleared it.
C21_Witness ==
    /\ store.isAuthenticated
    /\ \E o \in AuthOps :
         /\ ops[o].kind = "refresh"
         /\ ops[o].response \in {"null", "error"}
         /\ writer > o

\* Call o of logout completes in this step.
LogoutCompletes(o) ==
    ops[o].kind = "logout" /\ ops[o].pc = "pending" /\ ops'[o].pc = "done"

C23_FailedRefreshLogsOut ==
    [][\A o \in AuthOps :
          (RefreshCompletes(o) /\ ops'[o].response \in {"null", "error"}) =>
            /\ store'.user = NoUser
            /\ store'.tokens = NoTokens
            /\ ~store'.isAuthenticated
            /\ ops'[o].promise = "rejected" <=> ops'[o].response = "error"
            /\ (checker.pc = "refreshing" /\ checker.awaits = o)
                 => checker'.pc = "idle" /\ checker'.data = "false"]_vars

\* checkAuth found an expired token, its refresh threw, and it returned false
\* with the store logged out.
C23_Witness ==
    \E o \in AuthOps :
        /\ ops[o].kind = "refresh"
        /\ ops[o].response = "error"
        /\ ops[o].promise = "rejected"
        /\ checker.awaits = o
        /\ checker.pc = "idle"
        /\ checker.data = "false"
        /\ writer = o
        /\ ~store.isAuthenticated

\* Call o of login or register fails in this step.
SignInFailure(o) ==
    /\ ops[o].kind \in {"login", "register"}
    /\ ops[o].pc = "pending"
    /\ ops'[o].pc = "done"
    /\ ops'[o].response = "error"

\* C24: a failed login or register leaves user, tokens and isAuthenticated
\* as they were, sets isLoading to false and rejects with the error.
C24_FailedSignInChangesNothing ==
    [][\A o \in AuthOps :
          SignInFailure(o) =>
            /\ store'.user = store.user
            /\ store'.tokens = store.tokens
            /\ store'.expired = store.expired
            /\ store'.isAuthenticated = store.isAuthenticated
            /\ ~store'.isLoading
            /\ ops'[o].promise = "rejected"]_vars

\* A login failed while the store was authenticated, and the store still is.
C24_Witness ==
    \E o \in AuthOps :
        /\ ops[o].kind = "login"
        /\ ops[o].response = "error"
        /\ store.isAuthenticated
        /\ writer # NoWriter /\ writer < o
        /\ ~store.isLoading

\* C25: an AuthGuard with requireAuth = true renders its children only when
\* it is mounted, the store is not loading and isAuthenticated is true;
\* otherwise it renders a spinner, the fallback or the redirect.
C25_GuardHidesChildren ==
    [][(guard'.view # guard.view /\ guard.requireAuth) =>
          /\ guard'.view = "children"
               <=> (guard.mounted /\ ~store.isLoading /\ store.isAuthenticated)
          /\ guard'.view \in {"spinner", "fallback", "redirect", "children"}]_vars

\* A mounted guard shows a spinner while an authenticated store is loading.
C25_Witness ==
    /\ guard.requireAuth
    /\ guard.mounted
    /\ store.isAuthenticated
    /\ store.isLoading
    /\ guard.view = "spinner"

\* C26: the total of the cached session list is the number of sessions the
\* list holds, after any successful create and delete mutations.
C26_TotalIsCount ==
    sessionsCache.cached => sessionsCache.total = Len(sessionsCache.sessions)

====
